---------------------------- MODULE Spec2Model ----------------------------
(***************************************************************************)
(* The two bare-metal programs of the Stall_Indicator repository:          *)
(*   - the stall evaluator  (src/stall_indicator.c), actions S_*           *)
(*   - the bar-graph quantizer (src/unnamed/part_000), actions Q_*         *)
(* Both run on the same memory-mapped hardware: a two-channel ADC, the JP1 *)
(* GPIO port that drives ten LEDs, and (quantizer only) the slide          *)
(* switches.  Every volatile register access of main() is one step.        *)
(*                                                                         *)
(* 32-bit words are held as the two's-complement integer of their bit      *)
(* pattern (-2^31 .. 2^31-1); & and the tests on single bits only look at  *)
(* the bit pattern, so the signed `int' of the stall evaluator and the     *)
(* `uint32_t' of the quantizer read the same bits of the same word.        *)
(***************************************************************************)
EXTENDS Integers, Sequences, FiniteSets

----------------------------------------------------------------------------
(* Bounds of the model *)

\* The busy-wait of delay() is modelled with MaxDelaySteps passes instead of
\* DELAY_COUNT: the loop body is empty, only its control flow matters.
MaxDelaySteps == 2

----------------------------------------------------------------------------
(* Program constants *)

DELAY_COUNT == 100000
DONE_BIT == 65536
ADC_MASK == 4095
ADC_FULL_SCALE == 4095
SW0_MASK == 1
DIR_OUTPUTS == 1023
LEDS_ALL_ON == 1023
LEDS_ALL_OFF == 0
ADC_START == 1
LED_MAX == 10
VELOCITY_SCALE == 300
AOA_SCALE == 60

\* float literals, as exact fractions <<numerator, denominator>>
WEIGHT == <<980000, 1>>
RHO == <<1225, 1000>>
WING_AREA == <<125, 1>>
CL_MAX == <<12, 10>>
MAX_AOA == <<15, 1>>
HALF == <<1, 2>>
TWO == <<2, 1>>

----------------------------------------------------------------------------
(* Integer and bit arithmetic of C *)

RECURSIVE BitAnd(_, _)
\* x & m for a mask m >= 0, on the two's-complement bit pattern of x
BitAnd(x, m) ==
    IF m = 0 THEN 0
    ELSE (x % 2) * (m % 2) + 2 * BitAnd(x \div 2, m \div 2)

RECURSIVE ShiftLeft1(_)
\* 1 << n
ShiftLeft1(n) == IF n = 0 THEN 1 ELSE 2 * ShiftLeft1(n - 1)

\* bit b of the bit pattern of x
Bit(x, b) == (x \div ShiftLeft1(b)) % 2

----------------------------------------------------------------------------
(* float arithmetic, carried out exactly on fractions in lowest terms.      *)
(* The comparisons of the program are decided by margins (>= 1e-4 relative) *)
(* far above the rounding of IEEE single precision (about 6e-8), so the     *)
(* exact result and the float result agree on every 12-bit code.            *)

(* Each operation is a function of the tuple of its operands, so that an    *)
(* operand is evaluated once, however the operations are nested.            *)

Fractions == Int \X Int

\* Euclid's algorithm on a pair of naturals
gcd[p \in Nat \X Nat] == IF p[2] = 0 THEN p[1] ELSE gcd[<<p[2], p[1] % p[2]>>]

GCD(a, b) == gcd[<<a, b>>]

Abs(x) == IF x < 0 THEN -x ELSE x

\* p[3] * n/d for the fraction n/d and its greatest common divisor p[3]
reduce[p \in Int \X Int \X Int] ==
    IF p[2] < 0 THEN <<-(p[1] \div p[3]), -(p[2] \div p[3])>>
    ELSE <<p[1] \div p[3], p[2] \div p[3]>>

lowest[p \in Fractions] == reduce[<<p[1], p[2], gcd[<<Abs(p[1]), Abs(p[2])>>]>>]

\* the fraction n/d (d # 0) in lowest terms with a positive denominator
Frac(n, d) == lowest[<<n, d>>]

FromInt(n) == <<n, 1>>

fmul[p \in Fractions \X Fractions] == Frac(p[1][1] * p[2][1], p[1][2] * p[2][2])
fdiv[p \in Fractions \X Fractions] == Frac(p[1][1] * p[2][2], p[1][2] * p[2][1])
fsub[p \in Fractions \X Fractions] ==
    Frac(p[1][1] * p[2][2] - p[2][1] * p[1][2], p[1][2] * p[2][2])
fless[p \in Fractions \X Fractions] == p[1][1] * p[2][2] < p[2][1] * p[1][2]

FMul(a, b) == fmul[<<a, b>>]
FDiv(a, b) == fdiv[<<a, b>>]
FSub(a, b) == fsub[<<a, b>>]
FLess(a, b) == fless[<<a, b>>]

\* The value sqrtf(r) is kept as its radicand: [radicand |-> r].
Sqrtf(r) == [radicand |-> r]

\* a < sqrtf(r), for r > 0:  a <= 0, or a*a < r, i.e. a < r/a
fless_sqrt[p \in Fractions \X Fractions] ==
    p[1][1] <= 0 \/ FLess(p[1], FDiv(p[2], p[1]))

FLessSqrt(a, s) == fless_sqrt[<<a, s.radicand>>]

----------------------------------------------------------------------------
(* The words the hardware may present *)

\* a 32-bit word from its fields: the bits other than bit 16 and [11:0]
\* (`high'), the conversion-complete flag of the simulator (bit 16), the code
Word(high, done, code) == high + done * DONE_BIT + code

\* bits 12..15 and 17..31 all clear / only bit 15 set / all set (0xFFFEF000)
HighBits == {0, 32768, -69632}

\* codes on both sides of the stall speed, the spec's 90 and 200 units, ends
VelocityCodes == {0, 1228, 1409, 1410, 1500, 2730, 4095}
\* codes on both sides of the 15 degree limit, mid-scale (0 degrees), ends
AoACodes == {0, 2048, 3071, 3072, 4095}
\* codes on both sides of bar-graph steps, mid-scale, ends
BarCodes == {0, 409, 410, 2047, 2048, 4094, 4095}

WordsOf(codes) == {Word(h, d, c) : h \in HighBits, d \in {0, 1}, c \in codes}

\* every 12-bit code with the flag set, and one word with the flag clear
FullWords == {Word(0, 1, c) : c \in 0..ADC_FULL_SCALE} \cup {Word(0, 0, 2048)}

\* The sweeps of the stall evaluator take every code on one channel with
\* the other channel next to its threshold: channel 0 sweeps against
\* SweepAoAWords, and channel 1 sweeps when channel 0 holds a SweepVelocityCode.
SweepVelocityCodes == {1409, 1410}
SweepAoAWords == {Word(0, 1, 2048), Word(0, 1, 3072), Word(0, 0, 2048)}

SwitchWords == {0, 1, 2, 3}

\* what the LED data register may hold when the program starts
PowerOnData == {0, 682}

Unassigned == 0

----------------------------------------------------------------------------
(* State *)

VARIABLES
    variant,        \* which program runs: "stall" or "quant"
    pc,             \* the statement of main() that executes next
    jp1_dir,        \* JP1 direction register
    jp1_data,       \* JP1 data register (the ten LEDs)
    adc_ch0_cmd,    \* values written to ADC channel 0, in order
    adc_ch1_cmd,    \* values written to ADC channel 1, in order
    velocity_stall, \* stall evaluator: float velocity_stall
    raw_ch0,        \* stall evaluator: int raw_ch0
    raw_ch1,        \* stall evaluator: int raw_ch1
    sw0,            \* quantizer: uint32_t sw0
    adc_read,       \* quantizer: uint32_t adc_read
    i,              \* delay(): volatile int i
    boot,           \* register accesses made before the loop, in order
    ops,            \* register accesses of the current iteration, in order
    data_at_top     \* jp1_data when the current iteration began

vars == <<variant, pc, jp1_dir, jp1_data, adc_ch0_cmd, adc_ch1_cmd,
          velocity_stall, raw_ch0, raw_ch1, sw0, adc_read, i, boot, ops,
          data_at_top>>

\* one volatile access: <<"R" or "W", register, word read or written>>
Access(kind, reg, val) == <<kind, reg, val>>

\* the registers (and velocity_stall) that an iteration of the loop keeps
hw_config == <<jp1_dir, adc_ch0_cmd, adc_ch1_cmd, velocity_stall, boot>>

stall_locals == <<raw_ch0, raw_ch1>>
quant_locals == <<sw0, adc_read>>

Init ==
    /\ variant \in {"stall", "quant"}
    /\ pc = IF variant = "stall" THEN "s_dir" ELSE "q_dir"
    /\ jp1_dir = 0
    /\ jp1_data \in PowerOnData
    /\ adc_ch0_cmd = <<>>
    /\ adc_ch1_cmd = <<>>
    /\ velocity_stall = Sqrtf(FromInt(0))
    /\ raw_ch0 = Unassigned
    /\ raw_ch1 = Unassigned
    /\ sw0 = Unassigned
    /\ adc_read = Unassigned
    /\ i = 0
    /\ boot = <<>>
    /\ ops = <<>>
    /\ data_at_top = jp1_data

----------------------------------------------------------------------------
(* delay(): for (volatile int i = 0; i < 100000; i++) ; *)

DelayLimit == IF DELAY_COUNT < MaxDelaySteps THEN DELAY_COUNT ELSE MaxDelaySteps

\* i < 100000
DelayContinues(n) == n < DelayLimit

----------------------------------------------------------------------------
(* Stall evaluator: src/stall_indicator.c *)

\* the bug "one finished conversion is enough": || for &&
BothComplete_Either(w0, w1) == BitAnd(w0, DONE_BIT) # 0 \/ BitAnd(w1, DONE_BIT) # 0

\* (raw_ch0 & 0x10000) && (raw_ch1 & 0x10000)
BothComplete(w0, w1) == BitAnd(w0, DONE_BIT) # 0 /\ BitAnd(w1, DONE_BIT) # 0

\* the bug "factor 2 of the lift equation forgotten"
StallVelocity_NoTwo == Sqrtf(FDiv(WEIGHT, FMul(FMul(RHO, WING_AREA), CL_MAX)))

\* sqrtf((2.0f * WEIGHT) / (RHO * WING_AREA * CL_MAX))
StallVelocity == Sqrtf(FDiv(FMul(TWO, WEIGHT), FMul(FMul(RHO, WING_AREA), CL_MAX)))

\* (adc_val0 / 4095.0f) * 300.0f
Velocity(adc_val0) ==
    FMul(FDiv(FromInt(adc_val0), FromInt(ADC_FULL_SCALE)), FromInt(VELOCITY_SCALE))

\* the bug "- 0.5f missing": the angle runs from 0 to 60 degrees
AoA_NoOffset(adc_val1) ==
    FMul(FDiv(FromInt(adc_val1), FromInt(ADC_FULL_SCALE)), FromInt(AOA_SCALE))

\* ((adc_val1 / 4095.0f) - 0.5f) * 60.0f
AoA(adc_val1) ==
    FMul(FSub(FDiv(FromInt(adc_val1), FromInt(ADC_FULL_SCALE)), HALF), FromInt(AOA_SCALE))

\* the bug "&& for ||": the alarm needs low speed and high angle together
Stalling_Both(w0, w1, vstall) ==
    LET adc_val0 == BitAnd(w0, ADC_MASK)
        adc_val1 == BitAnd(w1, ADC_MASK)
    IN  FLessSqrt(Velocity(adc_val0), vstall) /\ FLess(MAX_AOA, AoA(adc_val1))

\* (current_velocity < velocity_stall) || (current_AoA > MAX_AOA)
Stalling(w0, w1, vstall) ==
    LET adc_val0 == BitAnd(w0, ADC_MASK)
        adc_val1 == BitAnd(w1, ADC_MASK)
    IN  FLessSqrt(Velocity(adc_val0), vstall) \/ FLess(MAX_AOA, AoA(adc_val1))

\* the bug "the alarm latches": once all LEDs are on they stay on
StallMask_Latch(w0, w1, vstall) ==
    IF Stalling(w0, w1, vstall) \/ jp1_data = LEDS_ALL_ON
    THEN LEDS_ALL_ON ELSE LEDS_ALL_OFF

\* 32-bit exclusive or of two non-negative words
BitXor(x, y) == x + y - 2 * BitAnd(x, y)

\* the value the if/else of lines 82..91 writes
StallMask(w0, w1, vstall) ==
    IF Stalling(w0, w1, vstall) THEN LEDS_ALL_ON ELSE LEDS_ALL_OFF

\* the bug "clear the LEDs at start-up": the initialisation writes the data register
S_ConfigGPIO_ClearLeds ==
    /\ pc = "s_dir"
    /\ jp1_dir' = DIR_OUTPUTS
    /\ jp1_data' = LEDS_ALL_OFF
    /\ boot' = boot \o <<Access("W", "JP1_DIR", DIR_OUTPUTS),
                         Access("W", "JP1_DATA", LEDS_ALL_OFF)>>
    /\ pc' = "s_adc0"
    /\ UNCHANGED <<variant, adc_ch0_cmd, adc_ch1_cmd, velocity_stall,
                   stall_locals, quant_locals, i, ops, data_at_top>>

S_ConfigGPIO ==
    /\ pc = "s_dir"
    /\ jp1_dir' = DIR_OUTPUTS
    /\ boot' = Append(boot, Access("W", "JP1_DIR", DIR_OUTPUTS))
    /\ pc' = "s_adc0"
    /\ UNCHANGED <<variant, jp1_data, adc_ch0_cmd, adc_ch1_cmd, velocity_stall,
                   stall_locals, quant_locals, i, ops, data_at_top>>

S_InitAdc0 ==
    /\ pc = "s_adc0"
    /\ adc_ch0_cmd' = Append(adc_ch0_cmd, ADC_START)
    /\ boot' = Append(boot, Access("W", "ADC_CH0", ADC_START))
    /\ pc' = "s_adc1"
    /\ UNCHANGED <<variant, jp1_dir, jp1_data, adc_ch1_cmd, velocity_stall,
                   stall_locals, quant_locals, i, ops, data_at_top>>

S_InitAdc1 ==
    /\ pc = "s_adc1"
    /\ adc_ch1_cmd' = Append(adc_ch1_cmd, ADC_START)
    /\ boot' = Append(boot, Access("W", "ADC_CH1", ADC_START))
    /\ pc' = "s_vstall"
    /\ UNCHANGED <<variant, jp1_dir, jp1_data, adc_ch0_cmd, velocity_stall,
                   stall_locals, quant_locals, i, ops, data_at_top>>

S_ComputeStall ==
    /\ pc = "s_vstall"
    /\ velocity_stall' = StallVelocity
    /\ pc' = "s_read0"
    /\ UNCHANGED <<variant, jp1_dir, jp1_data, adc_ch0_cmd, adc_ch1_cmd,
                   stall_locals, quant_locals, i, boot, ops, data_at_top>>

S_ReadCh0(words) ==
    /\ pc = "s_read0"
    /\ \E w \in words :
          /\ raw_ch0' = w
          /\ ops' = Append(ops, Access("R", "ADC_CH0", w))
    /\ pc' = "s_read1"
    /\ UNCHANGED <<variant, jp1_data, hw_config, raw_ch1, quant_locals, i,
                   data_at_top>>

S_ReadCh1(words) ==
    /\ pc = "s_read1"
    /\ \E w \in words :
          /\ raw_ch1' = w
          /\ ops' = Append(ops, Access("R", "ADC_CH1", w))
    /\ pc' = "s_test"
    /\ UNCHANGED <<variant, jp1_data, hw_config, raw_ch0, quant_locals, i,
                   data_at_top>>

\* the bug "clear the LEDs, then set them": two writes in one iteration
S_Drive_ClearFirst ==
    /\ pc = "s_test"
    /\ BothComplete(raw_ch0, raw_ch1)
    /\ LET mask == StallMask(raw_ch0, raw_ch1, velocity_stall)
       IN  /\ jp1_data' = mask
           /\ ops' = ops \o <<Access("W", "JP1_DATA", LEDS_ALL_OFF),
                              Access("W", "JP1_DATA", mask)>>
    /\ i' = 0
    /\ pc' = "s_delay"
    /\ UNCHANGED <<variant, hw_config, stall_locals, quant_locals, data_at_top>>

\* lines 64..92 with the condition true, then the call of delay()
S_Drive ==
    /\ pc = "s_test"
    /\ BothComplete(raw_ch0, raw_ch1)
    /\ LET mask == StallMask(raw_ch0, raw_ch1, velocity_stall)
       IN  /\ jp1_data' = mask
           /\ ops' = Append(ops, Access("W", "JP1_DATA", mask))
    /\ i' = 0
    /\ pc' = "s_delay"
    /\ UNCHANGED <<variant, hw_config, stall_locals, quant_locals, data_at_top>>

\* line 64 with the condition false, then the call of delay()
S_Skip ==
    /\ pc = "s_test"
    /\ ~BothComplete(raw_ch0, raw_ch1)
    /\ i' = 0
    /\ pc' = "s_delay"
    /\ UNCHANGED <<variant, jp1_data, hw_config, stall_locals, quant_locals, ops,
                   data_at_top>>

\* the bug "i++ missing": delay() never returns
S_DelayStep_NoIncrement ==
    /\ pc = "s_delay"
    /\ DelayContinues(i)
    /\ i' = i
    /\ UNCHANGED <<variant, pc, jp1_data, hw_config, stall_locals, quant_locals,
                   ops, data_at_top>>

S_DelayStep ==
    /\ pc = "s_delay"
    /\ DelayContinues(i)
    /\ i' = i + 1
    /\ UNCHANGED <<variant, pc, jp1_data, hw_config, stall_locals, quant_locals,
                   ops, data_at_top>>

\* the bug "while (1) opened above the initialisation"
S_DelayDone_Reinit ==
    /\ pc = "s_delay"
    /\ ~DelayContinues(i)
    /\ pc' = "s_dir"
    /\ raw_ch0' = Unassigned
    /\ raw_ch1' = Unassigned
    /\ i' = 0
    /\ ops' = <<>>
    /\ data_at_top' = jp1_data
    /\ UNCHANGED <<variant, jp1_data, hw_config, quant_locals>>

\* delay() returns; while (1) starts the next iteration
S_DelayDone ==
    /\ pc = "s_delay"
    /\ ~DelayContinues(i)
    /\ pc' = "s_read0"
    /\ raw_ch0' = Unassigned
    /\ raw_ch1' = Unassigned
    /\ i' = 0
    /\ ops' = <<>>
    /\ data_at_top' = jp1_data
    /\ UNCHANGED <<variant, jp1_data, hw_config, quant_locals>>

----------------------------------------------------------------------------
(* Bar-graph quantizer: src/unnamed/part_000 *)

\* the bug "hardware flag on the simulator": adc_read & 0x8000
Complete_Bit15(w) == BitAnd(w, 32768) # 0

\* adc_read & 0x10000
Complete(w) == BitAnd(w, DONE_BIT) # 0

\* the bug "divide by 4096": full scale lights nine LEDs
LedCount_By4096(adc_value) ==
    LET led_count == (adc_value * LED_MAX) \div (ADC_FULL_SCALE + 1)
    IN  IF led_count > LED_MAX THEN LED_MAX ELSE led_count

\* (adc_value * 10) / 4095, then if (led_count > 10) led_count = 10
LedCount(adc_value) ==
    LET led_count == (adc_value * LED_MAX) \div ADC_FULL_SCALE
    IN  IF led_count > LED_MAX THEN LED_MAX ELSE led_count

\* the bug "shift one too far": ten LEDs give 0x7FF
LedMask_Extra(led_count) == IF led_count > 0 THEN ShiftLeft1(led_count + 1) - 1 ELSE 0

\* the bug "one LED per count instead of a bar": 1 << (led_count - 1)
LedMask_Dot(led_count) == IF led_count > 0 THEN ShiftLeft1(led_count - 1) ELSE 0

\* (led_count > 0) ? ((1 << led_count) - 1) : 0
LedMask(led_count) == IF led_count > 0 THEN ShiftLeft1(led_count) - 1 ELSE 0

\* the bug "adc_read & 0xFFFF": bits 12..15 leak into the code
BarMask_Wide(w) == LedMask(LedCount(BitAnd(w, 65535)))

\* the bug "& 0xFFF missing": the flag bit is taken as part of the code
BarMask_NoMask(w) == LedMask(LedCount(w))

\* lines 70..81: the mask for a polled word
BarMask(w) == LedMask(LedCount(BitAnd(w, ADC_MASK)))

Q_ConfigGPIO ==
    /\ pc = "q_dir"
    /\ jp1_dir' = DIR_OUTPUTS
    /\ boot' = Append(boot, Access("W", "JP1_DIR", DIR_OUTPUTS))
    /\ pc' = "q_adc0"
    /\ UNCHANGED <<variant, jp1_data, adc_ch0_cmd, adc_ch1_cmd, velocity_stall,
                   stall_locals, quant_locals, i, ops, data_at_top>>

Q_InitAdc0 ==
    /\ pc = "q_adc0"
    /\ adc_ch0_cmd' = Append(adc_ch0_cmd, ADC_START)
    /\ boot' = Append(boot, Access("W", "ADC_CH0", ADC_START))
    /\ pc' = "q_adc1"
    /\ UNCHANGED <<variant, jp1_dir, jp1_data, adc_ch1_cmd, velocity_stall,
                   stall_locals, quant_locals, i, ops, data_at_top>>

Q_InitAdc1 ==
    /\ pc = "q_adc1"
    /\ adc_ch1_cmd' = Append(adc_ch1_cmd, ADC_START)
    /\ boot' = Append(boot, Access("W", "ADC_CH1", ADC_START))
    /\ pc' = "q_sw"
    /\ UNCHANGED <<variant, jp1_dir, jp1_data, adc_ch0_cmd, velocity_stall,
                   stall_locals, quant_locals, i, ops, data_at_top>>

\* the bug "SW0 and SW1 both select": (*sw_ptr) & 0x3
Q_ReadSwitch_TwoSwitches(words) ==
    /\ pc = "q_sw"
    /\ \E w \in words :
          /\ sw0' = BitAnd(w, 3)
          /\ ops' = Append(ops, Access("R", "SW", w))
    /\ pc' = "q_read"
    /\ UNCHANGED <<variant, jp1_data, hw_config, stall_locals, adc_read, i,
                   data_at_top>>

\* uint32_t sw0 = (*sw_ptr) & 0x1
Q_ReadSwitch(words) ==
    /\ pc = "q_sw"
    /\ \E w \in words :
          /\ sw0' = BitAnd(w, SW0_MASK)
          /\ ops' = Append(ops, Access("R", "SW", w))
    /\ pc' = "q_read"
    /\ UNCHANGED <<variant, jp1_data, hw_config, stall_locals, adc_read, i,
                   data_at_top>>

\* sw0 == 0: adc_read = *adc_ch0_ptr
Q_ReadCh0(words) ==
    /\ pc = "q_read"
    /\ sw0 = 0
    /\ \E w \in words :
          /\ adc_read' = w
          /\ ops' = Append(ops, Access("R", "ADC_CH0", w))
    /\ pc' = "q_test"
    /\ UNCHANGED <<variant, jp1_data, hw_config, stall_locals, sw0, i, data_at_top>>

\* else: adc_read = *adc_ch1_ptr
Q_ReadCh1(words) ==
    /\ pc = "q_read"
    /\ sw0 # 0
    /\ \E w \in words :
          /\ adc_read' = w
          /\ ops' = Append(ops, Access("R", "ADC_CH1", w))
    /\ pc' = "q_test"
    /\ UNCHANGED <<variant, jp1_data, hw_config, stall_locals, sw0, i, data_at_top>>

\* the bug "*jp1_data_ptr ^= led_mask": the mask toggles the LEDs it names
Q_Drive_Toggle ==
    /\ pc = "q_test"
    /\ Complete(adc_read)
    /\ LET led_mask == BitXor(jp1_data, BarMask(adc_read))
       IN  /\ jp1_data' = led_mask
           /\ ops' = Append(ops, Access("W", "JP1_DATA", led_mask))
    /\ i' = 0
    /\ pc' = "q_delay"
    /\ UNCHANGED <<variant, hw_config, stall_locals, quant_locals, data_at_top>>

\* lines 67..85 with the condition true, then the call of delay()
Q_Drive ==
    /\ pc = "q_test"
    /\ Complete(adc_read)
    /\ LET led_mask == BarMask(adc_read)
       IN  /\ jp1_data' = led_mask
           /\ ops' = Append(ops, Access("W", "JP1_DATA", led_mask))
    /\ i' = 0
    /\ pc' = "q_delay"
    /\ UNCHANGED <<variant, hw_config, stall_locals, quant_locals, data_at_top>>

\* line 67 with the condition false, then the call of delay()
Q_Skip ==
    /\ pc = "q_test"
    /\ ~Complete(adc_read)
    /\ i' = 0
    /\ pc' = "q_delay"
    /\ UNCHANGED <<variant, jp1_data, hw_config, stall_locals, quant_locals, ops,
                   data_at_top>>

Q_DelayStep ==
    /\ pc = "q_delay"
    /\ DelayContinues(i)
    /\ i' = i + 1
    /\ UNCHANGED <<variant, pc, jp1_data, hw_config, stall_locals, quant_locals,
                   ops, data_at_top>>

\* delay() returns; while (1) starts the next iteration
Q_DelayDone ==
    /\ pc = "q_delay"
    /\ ~DelayContinues(i)
    /\ pc' = "q_sw"
    /\ sw0' = Unassigned
    /\ adc_read' = Unassigned
    /\ i' = 0
    /\ ops' = <<>>
    /\ data_at_top' = jp1_data
    /\ UNCHANGED <<variant, jp1_data, hw_config, stall_locals>>

----------------------------------------------------------------------------
(* Specifications *)

\* both programs, the converter presenting the sampled words
Next ==
    \/ S_ConfigGPIO \/ S_InitAdc0 \/ S_InitAdc1 \/ S_ComputeStall
    \/ S_ReadCh0(WordsOf(VelocityCodes))
    \/ S_ReadCh1(WordsOf(AoACodes))
    \/ S_Drive \/ S_Skip \/ S_DelayStep \/ S_DelayDone
    \/ Q_ConfigGPIO \/ Q_InitAdc0 \/ Q_InitAdc1
    \/ Q_ReadSwitch(SwitchWords)
    \/ Q_ReadCh0(WordsOf(BarCodes))
    \/ Q_ReadCh1(WordsOf(BarCodes))
    \/ Q_Drive \/ Q_Skip \/ Q_DelayStep \/ Q_DelayDone

Spec == Init /\ [][Next]_vars

\* The stall evaluator alone, the converter sweeping all 12-bit codes.
InitStall == Init /\ variant = "stall"

NextStallSweep ==
    \/ S_ConfigGPIO \/ S_InitAdc0 \/ S_InitAdc1 \/ S_ComputeStall
    \/ S_ReadCh0(FullWords)
    \/ S_ReadCh1(IF BitAnd(raw_ch0, ADC_MASK) \in SweepVelocityCodes
                 THEN FullWords ELSE SweepAoAWords)
    \/ S_Drive \/ S_Skip \/ S_DelayStep \/ S_DelayDone

SpecStallSweep == InitStall /\ [][NextStallSweep]_vars

\* The quantizer alone, the converter sweeping all 12-bit codes on channel 0.
InitQuant == Init /\ variant = "quant"

NextQuantSweep ==
    \/ Q_ConfigGPIO \/ Q_InitAdc0 \/ Q_InitAdc1
    \/ Q_ReadSwitch({0, 1})
    \/ Q_ReadCh0(FullWords)
    \/ Q_ReadCh1(WordsOf({2048}))
    \/ Q_Drive \/ Q_Skip \/ Q_DelayStep \/ Q_DelayDone

SpecQuantSweep == InitQuant /\ [][NextQuantSweep]_vars

\* The processor always executes its next instruction.
FairSpec == Spec /\ WF_vars(Next)

----------------------------------------------------------------------------
(* Properties *)

\* the positions in ops of the accesses of one kind to one register
Accesses(kind, reg) == {k \in DOMAIN ops : ops[k][1] = kind /\ ops[k][2] = reg}

\* the conversion-complete flag and the code of a word, read off its bits
Flag(w) == Bit(w, 16)
Code(w) == w % 4096

InStallDelay == variant = "stall" /\ pc = "s_delay"
InQuantDelay == variant = "quant" /\ pc = "q_delay"

\* C1: stall evaluator: an iteration in which the word of channel 0 or the
\* word of channel 1 has the completion bit clear does not write the LED data
\* register: after the iteration the register holds what it held before it,
\* whatever the codes of the words and whatever the LEDs showed.
C1_IncompleteKeepsData ==
    (InStallDelay /\ (Flag(raw_ch0) = 0 \/ Flag(raw_ch1) = 0))
        => /\ jp1_data = data_at_top
           /\ Accesses("W", "JP1_DATA") = {}

\* the alarm is showing, channel 0 alone is complete with a speed far above
\* the stall speed, and the iteration is over: the alarm still shows
C1_Witness ==
    /\ InStallDelay
    /\ i = DelayLimit
    /\ Flag(raw_ch0) = 1 /\ Code(raw_ch0) = 2730
    /\ Flag(raw_ch1) = 0 /\ Code(raw_ch1) = 2048
    /\ data_at_top = LEDS_ALL_ON
    /\ jp1_data = LEDS_ALL_ON

\* the last access of the current iteration
LastAccess == ops[Len(ops)]

\* velocity < velocityStallThreshold, on the code c0 of channel 0:
\*   (c0/4095*300)^2 < 2*980000/(1.225*125*1.2) = 32000/3
\*   <=>  c0^2 < (32000/3) * (4095/300)^2 = 1987440
VelocityBelowStall(c0) == c0 * c0 < 1987440

\* angle > 15 degrees, on the code c1 of channel 1:
\*   (c1/4095 - 0.5)*60 > 15  <=>  c1/4095 > 3/4  <=>  4*c1 > 3*4095
AngleAboveLimit(c1) == 4 * c1 > 3 * 4095

\* C2: stall evaluator: an iteration whose two words both have the completion
\* bit set writes 0x3FF to the LED data register if velocity < the stall
\* velocity or angle > 15 degrees, and 0x000 otherwise, for every pair of
\* codes; about 90 units at about 0 degrees gives 0x3FF, about 200 units at
\* about 0 degrees gives 0x000.
C2_AlarmMask ==
    (InStallDelay /\ Flag(raw_ch0) = 1 /\ Flag(raw_ch1) = 1)
        => /\ LastAccess =
                Access("W", "JP1_DATA",
                       IF VelocityBelowStall(Code(raw_ch0)) \/ AngleAboveLimit(Code(raw_ch1))
                       THEN 1023 ELSE 0)
           /\ jp1_data = LastAccess[3]
           /\ (Code(raw_ch0) = 1228 /\ Code(raw_ch1) = 2048) => jp1_data = 1023
           /\ (Code(raw_ch0) = 2730 /\ Code(raw_ch1) = 2048) => jp1_data = 0

\* 89.96 units at 0.007 degrees, LEDs dark before: the alarm is written
C2_Witness ==
    /\ InStallDelay
    /\ Flag(raw_ch0) = 1 /\ Code(raw_ch0) = 1228
    /\ Flag(raw_ch1) = 1 /\ Code(raw_ch1) = 2048
    /\ data_at_top = 0
    /\ jp1_data = 1023

\* floor((raw_code/4095)*10) clamped to [0,10]: the c of 0..10 with
\* c*4095 <= 10*raw_code, and 10*raw_code < (c+1)*4095 unless c = 10
BarCount(raw_code) ==
    CHOOSE c \in 0..10 :
        /\ c * 4095 <= 10 * raw_code
        /\ c < 10 => 10 * raw_code < (c + 1) * 4095

\* the quantizer polled a complete word and has just acted on it
QuantDrove == InQuantDelay /\ i = 0 /\ Flag(adc_read) = 1

\* C3: quantizer: an iteration whose polled word has the completion bit set
\* writes, for every code 0..4095, the mask (1<<count)-1 with
\* count = floor((code/4095)*10) clamped to [0,10]: exactly count set bits,
\* contiguous from bit 0; code 2048 writes 0x1F and code 4095 writes 0x3FF.
C3_BarGraph ==
    QuantDrove =>
        LET count == BarCount(Code(adc_read))
        IN  /\ LastAccess = Access("W", "JP1_DATA", jp1_data)
            /\ jp1_data = ShiftLeft1(count) - 1
            /\ \A b \in 0..30 : Bit(jp1_data, b) = IF b < count THEN 1 ELSE 0
            /\ Code(adc_read) = 2048 => jp1_data = 31
            /\ Code(adc_read) = 4095 => jp1_data = 1023

\* code 2048 polled complete on channel 0 with the LEDs dark: 0x1F is written
C3_Witness ==
    /\ QuantDrove
    /\ Code(adc_read) = 2048
    /\ data_at_top = 0
    /\ jp1_data = 31

\* C8: quantizer monotonicity: for all codes r1 <= r2, count(r1) <= count(r2)
\* and the mask written for r1 is a bitwise subset of the mask written for
\* r2; from a code to the next the count stays or grows by exactly one.
\* (r2 is the code just polled, its mask the one just written; r1 ranges over
\* all smaller codes and masks1 over their masks, decided once per r2, in the
\* first iteration.)
C8_Monotone ==
    (QuantDrove /\ data_at_top = 682) =>
        LET r2 == Code(adc_read)
            count2 == LedCount(r2)
            masks1 == {LedMask(LedCount(r1)) : r1 \in 0..r2}
        IN  /\ \A r1 \in 0..r2 : LedCount(r1) <= count2
            /\ \A mask1 \in masks1 : BitAnd(mask1, jp1_data) = mask1
            /\ r2 > 0 => count2 - LedCount(r2 - 1) \in {0, 1}

\* the step from 9 to 10 LEDs: code 4095 written after power-on
C8_Witness ==
    /\ QuantDrove /\ data_at_top = 682
    /\ Code(adc_read) = 4095
    /\ jp1_data = 1023
    /\ LedCount(4095) = 10
    /\ LedCount(4094) = 9

BootPcs == {"s_dir", "s_adc0", "s_adc1", "s_vstall", "q_dir", "q_adc0", "q_adc1"}
InLoop == pc \notin BootPcs

\* C4: both programs: whatever words the converter presents (bits above bit
\* 11 included), every value written to the LED data register lies in
\* 0..0x3FF, all bits above the low ten clear, and once the loop runs the
\* direction register holds 0x3FF.
C4_TenBitsOnly ==
    /\ \A k \in Accesses("W", "JP1_DATA") :
          /\ ops[k][3] \in 0..1023
          /\ \A b \in 10..30 : Bit(ops[k][3], b) = 0
          /\ jp1_data = ops[k][3]
    /\ InLoop => jp1_dir = 1023

\* the quantizer polled the all-ones word 0xFFFFFFFF and wrote 0x3FF
C4_Witness ==
    /\ InQuantDelay
    /\ adc_read = -1
    /\ LastAccess = Access("W", "JP1_DATA", 1023)
    /\ jp1_dir = 1023

\* C5: quantizer: an iteration whose polled word has the completion bit clear
\* does not write the LED data register, which keeps the value it had before
\* the iteration (the last mask written, or the power-on value).
C5_IncompleteKeepsBar ==
    (InQuantDelay /\ Flag(adc_read) = 0)
        => /\ jp1_data = data_at_top
           /\ Accesses("W", "JP1_DATA") = {}

\* five LEDs lit, then an incomplete full-scale word: still five LEDs
C5_Witness ==
    /\ InQuantDelay
    /\ i = DelayLimit
    /\ Flag(adc_read) = 0 /\ Code(adc_read) = 4095
    /\ data_at_top = 31
    /\ jp1_data = 31

\* C6: quantizer: every iteration reads the switch register exactly once and
\* then exactly one converter channel: channel 0 if bit 0 of the switch word
\* is 0, channel 1 if it is 1, whatever the other switch bits; the completion
\* test and the mask use that word only, the other channel is not read.
C6_SelectedChannelOnly ==
    /\ (variant = "quant" /\ pc = "q_sw") => ops = <<>>
    /\ (variant = "quant" /\ pc = "q_read") =>
          /\ Len(ops) = 1
          /\ ops[1][1] = "R" /\ ops[1][2] = "SW"
    /\ (variant = "quant" /\ pc \in {"q_test", "q_delay"}) =>
          /\ Accesses("R", "SW") = {1}
          /\ Accesses("R", "ADC_CH0") \cup Accesses("R", "ADC_CH1") = {2}
          /\ ops[2][2] = IF ops[1][3] % 2 = 0 THEN "ADC_CH0" ELSE "ADC_CH1"
          /\ adc_read = ops[2][3]
          /\ pc = "q_test" => Len(ops) = 2
          /\ pc = "q_delay" =>
                IF Flag(ops[2][3]) = 1
                THEN /\ Len(ops) = 3
                     /\ ops[3] = Access("W", "JP1_DATA",
                                        ShiftLeft1(BarCount(Code(ops[2][3]))) - 1)
                     /\ jp1_data = ops[3][3]
                ELSE /\ Len(ops) = 2
                     /\ jp1_data = data_at_top

\* switch word 2 (SW1 up, SW0 down): channel 0 was polled and drove the LEDs
C6_Witness ==
    /\ InQuantDelay
    /\ Len(ops) = 3
    /\ ops[1] = Access("R", "SW", 2)
    /\ ops[2][2] = "ADC_CH0"
    /\ Code(ops[2][3]) = 2048
    /\ jp1_data = 31

\* the three register writes of the initialisation, in program order
BootOrder ==
    <<Access("W", "JP1_DIR", 1023), Access("W", "ADC_CH0", 1), Access("W", "ADC_CH1", 1)>>

\* C7: both programs: before the first converter read the direction register
\* is written with 0x3FF, then ADC channel 0, then ADC channel 1, each once;
\* no iteration of the loop writes any of the three again.
C7_InitOnceInOrder ==
    /\ ~InLoop =>
          /\ ops = <<>>
          /\ Len(boot) <= 3
          /\ boot = SubSeq(BootOrder, 1, Len(boot))
    /\ InLoop =>
          /\ boot = BootOrder
          /\ jp1_dir = 1023
          /\ Len(adc_ch0_cmd) = 1
          /\ Len(adc_ch1_cmd) = 1
          /\ \A k \in DOMAIN ops : ops[k][1] = "W" => ops[k][2] = "JP1_DATA"

\* the stall evaluator in a later iteration, both channels read again
C7_Witness ==
    /\ variant = "stall"
    /\ pc = "s_test"
    /\ data_at_top = 1023
    /\ boot = BootOrder
    /\ Len(ops) = 2

\* |sqrtf(r) - c/100| <= 0.005, on the radicand r = n/d:
\*   ((2c-1)/200)^2 < n/d <= ((2c+1)/200)^2
NearHundredths(s, c) ==
    LET n == s.radicand[1]
        d == s.radicand[2]
    IN  /\ (2 * c - 1) * (2 * c - 1) * d < n * 200 * 200
        /\ n * 200 * 200 <= (2 * c + 1) * (2 * c + 1) * d

\* velocity = code/4095*300 below c/100 units:  code*300*100 < c*4095
VelocityBelowHundredths(code, c) == code * 300 * 100 < c * 4095

\* the stall evaluator drove the LEDs from two complete words, angle <= 15
StallDroveLevel ==
    /\ InStallDelay
    /\ Flag(raw_ch0) = 1 /\ Flag(raw_ch1) = 1
    /\ ~AngleAboveLimit(Code(raw_ch1))

\* C9 as stated: the precomputed stall velocity is about 115.96 units, so
\* with the angle at most 15 degrees a complete sample raises the alarm
\* exactly if its velocity is below about 115.96.
C9_Original ==
    /\ (variant = "stall" /\ InLoop) => NearHundredths(velocity_stall, 11596)
    /\ StallDroveLevel =>
          (jp1_data = 1023 <=> VelocityBelowHundredths(Code(raw_ch0), 11596))

\* C9 amended: for weight 980000, density 1.225, wing area 125, CL_max 1.2
\* the precomputed stall velocity sqrt(2*weight/(density*area*CL_max)) is
\* about 103.28 units, so with the angle at most 15 degrees a complete sample
\* raises the alarm exactly if its velocity is below about 103.28.
C9_StallVelocity ==
    /\ (variant = "stall" /\ InLoop) => NearHundredths(velocity_stall, 10328)
    /\ StallDroveLevel =>
          (jp1_data = 1023 <=> VelocityBelowHundredths(Code(raw_ch0), 10328))

\* 109.9 units at 0 degrees, the alarm showing before: the LEDs are cleared
C9_Witness ==
    /\ StallDroveLevel
    /\ Code(raw_ch0) = 1500 /\ Code(raw_ch1) = 2048
    /\ NearHundredths(velocity_stall, 10328)
    /\ data_at_top = 1023
    /\ jp1_data = 0

AtLoopTop == pc \in {"s_read0", "q_sw"}
Polled == pc \in {"s_test", "q_test"}
InDelay == pc \in {"s_delay", "q_delay"}

\* the sample(s) the iteration needs were polled and are complete
CompletePoll ==
    \/ pc = "s_test" /\ Flag(raw_ch0) = 1 /\ Flag(raw_ch1) = 1
    \/ pc = "q_test" /\ Flag(adc_read) = 1

\* the LED data register has just been written
DataWritten == InDelay /\ i = 0 /\ Accesses("W", "JP1_DATA") # {}

\* C10: both programs: the loop has no terminal state and never waits for the
\* converter: every state has a next step; complete or not, a polled
\* iteration reaches the delay, the delay ends, the next iteration starts and
\* polls afresh; if the polls are complete infinitely often, the LED data
\* register is written infinitely often.
C10_LoopNeverStops ==
    /\ [](ENABLED <<Next>>_vars)
    /\ Polled ~> InDelay
    /\ InDelay ~> AtLoopTop
    /\ AtLoopTop ~> Polled
    /\ ([]<>CompletePoll) => ([]<>DataWritten)

\* an incomplete poll, the delay, and the quantizer is polling again
C10_Witness ==
    /\ variant = "quant"
    /\ pc = "q_test"
    /\ data_at_top = 31
    /\ jp1_data = 31
    /\ Flag(adc_read) = 0

\* the accesses of the current iteration that read a register
Reads == {k \in DOMAIN ops : ops[k][1] = "R"}

\* C11: both programs: the value written in an iteration with complete
\* sample(s) is a function of the words read in that iteration alone (and,
\* for the quantizer, of the switch word that chose the channel): it does not
\* depend on the value the data register held or on earlier samples, and the
\* data register is never read.  The alarm does not latch: a complete
\* non-stall sample after an alarm writes 0x000.
C11_HistoryFree ==
    /\ \A k \in Reads : ops[k][2] # "JP1_DATA"
    /\ (InStallDelay /\ Flag(raw_ch0) = 1 /\ Flag(raw_ch1) = 1) =>
          /\ raw_ch0 = ops[1][3] /\ raw_ch1 = ops[2][3]
          /\ jp1_data =
                IF VelocityBelowStall(Code(ops[1][3])) \/ AngleAboveLimit(Code(ops[2][3]))
                THEN 1023 ELSE 0
          /\ (data_at_top = 1023 /\ Code(ops[1][3]) = 2730 /\ Code(ops[2][3]) = 2048)
                => jp1_data = 0
    /\ (InQuantDelay /\ Flag(adc_read) = 1) =>
          /\ adc_read = ops[2][3]
          /\ ops[2][2] = IF ops[1][3] % 2 = 0 THEN "ADC_CH0" ELSE "ADC_CH1"
          /\ jp1_data = ShiftLeft1(BarCount(Code(ops[2][3]))) - 1

\* the alarm showed, then 200 units at 0 degrees polled complete: LEDs off
C11_Witness ==
    /\ InStallDelay
    /\ data_at_top = 1023
    /\ Flag(raw_ch0) = 1 /\ Code(raw_ch0) = 2730
    /\ Flag(raw_ch1) = 1 /\ Code(raw_ch1) = 2048
    /\ LastAccess = Access("W", "JP1_DATA", 0)
    /\ jp1_data = 0

\* the iteration in progress has written the data register
WroteData == Accesses("W", "JP1_DATA") # {}

\* the flag bit of the hardware target (0x8000) of a polled word
HardwareFlag(w) == Bit(w, 15)

\* C12: the position of the completion bit is a parameter of the loop, and a
\* loop set for the hardware target recognises a word whose bit 15 (0x8000)
\* is set as complete, just as bit 16 (0x10000) is recognised on the
\* simulator.  Both programs compile the literal 0x10000 into the test and
\* have no other setting, so the statement is the one about the programs as
\* they are: a poll whose words all carry bit 15 drives the LEDs.
C12_HardwareFlagRecognised ==
    /\ (InStallDelay /\ HardwareFlag(raw_ch0) = 1 /\ HardwareFlag(raw_ch1) = 1)
          => WroteData
    /\ (InQuantDelay /\ HardwareFlag(adc_read) = 1)
          => WroteData

\* C14: the quantizer treats the polled word as complete exactly when its
\* bit 15 is set, and skips the iteration exactly when bit 15 is 0, as the
\* comments of its completion test say.
C14_CompleteIffBit15 ==
    InQuantDelay =>
        /\ HardwareFlag(adc_read) = 1 <=> WroteData
        /\ HardwareFlag(adc_read) = 0 <=> (ops = <<ops[1], ops[2]>> /\ jp1_data = data_at_top /\ ~WroteData)

\* the iteration in progress polled complete sample(s) and has reached delay()
CompleteIteration ==
    \/ InStallDelay /\ Flag(raw_ch0) = 1 /\ Flag(raw_ch1) = 1
    \/ InQuantDelay /\ Flag(adc_read) = 1

\* the mask that the codes polled in this iteration call for
ExpectedMask ==
    IF variant = "stall"
    THEN IF VelocityBelowStall(Code(raw_ch0)) \/ AngleAboveLimit(Code(raw_ch1))
         THEN 1023 ELSE 0
    ELSE ShiftLeft1(BarCount(Code(adc_read))) - 1

\* C13: both programs: an iteration with complete sample(s) whose mask is the
\* one the previous iteration left in the data register leaves the data
\* register with that same value, and changes no other register: direction,
\* ADC channel 0 and ADC channel 1 stay as the initialisation wrote them, and
\* the iteration writes nothing but that one data-register value.
C13_Idempotent ==
    (CompleteIteration /\ ExpectedMask = data_at_top) =>
        /\ jp1_data = data_at_top
        /\ jp1_dir = 1023
        /\ adc_ch0_cmd = <<1>>
        /\ adc_ch1_cmd = <<1>>
        /\ boot = BootOrder
        /\ \A k \in DOMAIN ops :
              ops[k][1] = "W" => ops[k] = Access("W", "JP1_DATA", data_at_top)

\* five LEDs were lit, and a complete code of 2048 lights five again
C13_Witness ==
    /\ InQuantDelay
    /\ data_at_top = 31
    /\ Flag(adc_read) = 1 /\ Code(adc_read) = 2048
    /\ LastAccess = Access("W", "JP1_DATA", 31)
    /\ jp1_data = 31

\* the kind and register of each access of the iteration, in order
OpShape == [k \in DOMAIN ops |-> <<ops[k][1], ops[k][2]>>]

StallReads == << <<"R", "ADC_CH0">>, <<"R", "ADC_CH1">> >>
QuantReads(ch) == << <<"R", "SW">>, <<"R", ch>> >>
DataWrite == << <<"W", "JP1_DATA">> >>

\* C15: the register operations of one iteration are sequential and bounded.
\* Stall evaluator: read channel 0, then channel 1, then at most one write of
\* the data register, then delay.  Quantizer: read the switches, then exactly
\* one ADC channel, then at most one write of the data register, then delay.
\* No write comes before all reads of the iteration, none is repeated, and
\* the delay performs no register access.
C15_SequentialBounded ==
    /\ pc = "s_read0" => OpShape = <<>>
    /\ pc = "s_read1" => OpShape = SubSeq(StallReads, 1, 1)
    /\ pc = "s_test"  => OpShape = StallReads
    /\ pc = "s_delay" => /\ OpShape \in {StallReads, StallReads \o DataWrite}
                         /\ Len(ops) = 3 => ops[3][3] = jp1_data
    /\ pc = "q_sw"    => OpShape = <<>>
    /\ pc = "q_read"  => OpShape = SubSeq(QuantReads("SW"), 1, 1)
    /\ pc = "q_test"  => OpShape \in {QuantReads("ADC_CH0"), QuantReads("ADC_CH1")}
    /\ pc = "q_delay" => /\ \E ch \in {"ADC_CH0", "ADC_CH1"} :
                               OpShape \in {QuantReads(ch), QuantReads(ch) \o DataWrite}
                         /\ Len(ops) = 3 => ops[3][3] = jp1_data
    /\ Cardinality(Accesses("W", "JP1_DATA")) <= 1

\* the stall evaluator at the end of its delay, after two reads and one write
C15_Witness ==
    /\ InStallDelay
    /\ i = DelayLimit
    /\ OpShape = StallReads \o DataWrite
    /\ ops[3][3] = 1023

\* the word with the same completion bit and low 12 bits, all other bits clear
Canon(w) == Word(0, Flag(w), Code(w))

\* C16: both programs use only the completion bit and bits 11..0 of a polled
\* word: the iteration has the effect it would have had on the words with
\* bits 12..15 and 17..31 cleared, and the code taken from a word is always
\* in 0..4095.
C16_OnlyFlagAndCode ==
    /\ InStallDelay =>
          /\ WroteData <=> BothComplete(Canon(raw_ch0), Canon(raw_ch1))
          /\ jp1_data =
                IF BothComplete(Canon(raw_ch0), Canon(raw_ch1))
                THEN StallMask(Canon(raw_ch0), Canon(raw_ch1), velocity_stall)
                ELSE data_at_top
          /\ BitAnd(raw_ch0, ADC_MASK) \in 0..4095
          /\ BitAnd(raw_ch1, ADC_MASK) \in 0..4095
    /\ InQuantDelay =>
          /\ WroteData <=> Complete(Canon(adc_read))
          /\ jp1_data =
                IF Complete(Canon(adc_read))
                THEN BarMask(Canon(adc_read))
                ELSE data_at_top
          /\ BitAnd(adc_read, ADC_MASK) \in 0..4095

\* the word 0xFFFFF800 (every high bit set, code 2048) lit five LEDs
C16_Witness ==
    /\ InQuantDelay
    /\ adc_read = Word(-69632, 1, 2048)
    /\ Canon(adc_read) # adc_read
    /\ WroteData
    /\ jp1_data = 31

\* a <= b on fractions
FLeq(a, b) == ~FLess(b, a)

\* the stall evaluator converted two complete words and has just driven the LEDs
StallConverted ==
    /\ InStallDelay /\ i = 0
    /\ Flag(raw_ch0) = 1 /\ Flag(raw_ch1) = 1

\* C17: stall evaluator: for every code 0..4095 the velocity computed from it
\* lies in [0, 300] and the angle in [-30, +30]; both do not decrease as the
\* code grows; code 0 gives velocity 0 and angle -30, code 4095 gives
\* velocity 300 and angle +30.
C17_ConversionRanges ==
    StallConverted =>
        LET c0 == BitAnd(raw_ch0, ADC_MASK)
            c1 == BitAnd(raw_ch1, ADC_MASK)
        IN  /\ FLeq(FromInt(0), Velocity(c0)) /\ FLeq(Velocity(c0), FromInt(300))
            /\ FLeq(FromInt(-30), AoA(c1)) /\ FLeq(AoA(c1), FromInt(30))
            /\ c0 > 0 => FLeq(Velocity(c0 - 1), Velocity(c0))
            /\ c1 > 0 => FLeq(AoA(c1 - 1), AoA(c1))
            /\ FLeq(Velocity(0), Velocity(c0)) /\ FLeq(Velocity(c0), Velocity(4095))
            /\ FLeq(AoA(0), AoA(c1)) /\ FLeq(AoA(c1), AoA(4095))
            /\ c0 = 0 => Velocity(c0) = FromInt(0)
            /\ c0 = 4095 => Velocity(c0) = FromInt(300)
            /\ c1 = 0 => AoA(c1) = FromInt(-30)
            /\ c1 = 4095 => AoA(c1) = FromInt(30)
            /\ Velocity(c0)[1] * 4095 = c0 * 300 * Velocity(c0)[2]
            /\ AoA(c1)[1] * 8190 = (2 * c1 - 4095) * 60 * AoA(c1)[2]

\* full scale on channel 1: +30 degrees, above the limit, so the alarm shows
C17_Witness ==
    /\ StallConverted
    /\ Code(raw_ch0) = 1410
    /\ Code(raw_ch1) = 4095
    /\ AoA(BitAnd(raw_ch1, ADC_MASK)) = FromInt(30)
    /\ jp1_data = 1023

\* the largest value of a uint32_t is 2 * 2147483647 + 1
FitsUint32(n) == 0 <= n /\ n \div 2 <= 2147483647

\* C18: quantizer: adc_value is at most 4095, so (adc_value * 10) / 4095 does
\* not overflow 32 bits and is at most 10: the clamp "if (led_count > 10)" is
\* never taken.  The count is 10 exactly for code 4095, and every code 0..409
\* writes the mask 0 (no LED lit).
C18_ClampNeverTaken ==
    QuantDrove =>
        LET adc_value == BitAnd(adc_read, ADC_MASK)
            product   == adc_value * 10
            led_count == product \div 4095
        IN  /\ adc_value \in 0..4095
            /\ FitsUint32(product) /\ product <= 40950
            /\ led_count <= 10
            /\ LedCount(adc_value) = led_count
            /\ led_count = 10 <=> adc_value = 4095
            /\ jp1_data = 1023 <=> adc_value = 4095
            /\ adc_value <= 409 => jp1_data = 0 /\ LastAccess = Access("W", "JP1_DATA", 0)
            /\ adc_value = 410 => jp1_data = 1

\* code 409 polled complete while LEDs were lit: all LEDs go dark
C18_Witness ==
    /\ QuantDrove
    /\ Code(adc_read) = 409
    /\ data_at_top = 1023
    /\ LastAccess = Access("W", "JP1_DATA", 0)
    /\ jp1_data = 0

\* the positions of the data-register writes in a sequence of accesses
DataWritesIn(s) == {k \in DOMAIN s : s[k][1] = "W" /\ s[k][2] = "JP1_DATA"}

\* the words the iteration at its test polled all have the completion bit set
PolledComplete ==
    \/ variant = "stall" /\ pc = "s_test" /\ Flag(raw_ch0) = 1 /\ Flag(raw_ch1) = 1
    \/ variant = "quant" /\ pc = "q_test" /\ Flag(adc_read) = 1

\* this step writes the data register
WritesDataNow ==
    \/ jp1_data' # jp1_data
    \/ \E k \in DataWritesIn(ops') : k \notin DataWritesIn(ops)
    \/ \E k \in DataWritesIn(boot') : k \notin DataWritesIn(boot)

\* C19: both programs: the initialisation never writes the data register, and
\* no step writes it except the one of an iteration whose required samples
\* are all complete; so the register keeps the value it had before the
\* program ran until the first such iteration, and for ever if the completion
\* bit is never set.
C19_NoSpuriousWrite ==
    /\ [](~InLoop => /\ jp1_data = data_at_top
                     /\ jp1_data \in PowerOnData
                     /\ DataWritesIn(boot) = {}
                     /\ ops = <<>>)
    /\ [](DataWritesIn(boot) = {})
    /\ [](jp1_data # data_at_top => CompleteIteration /\ WroteData)
    /\ [][WritesDataNow => PolledComplete]_vars

\* the power-on pattern 0x2AA survives an iteration whose sample is incomplete
C19_Witness ==
    /\ InStallDelay
    /\ i = DelayLimit
    /\ Flag(raw_ch0) = 0
    /\ Len(ops) = 2
    /\ data_at_top = 682
    /\ jp1_data = 682

=============================================================================
